---- MODULE Spec2Model ----
(***************************************************************************)
(* State-machine model of downloader.py: login, month-by-month window      *)
(* stepping, paginated photo-index fetching, and the concurrent download   *)
(* handlers started by download_photos.                                    *)
(*                                                                         *)
(* A datetime is a tuple <<year, month, day, hour>>; strings that the code *)
(* inspects character-wise (URLs, file names) are sequences of tokens in   *)
(* which ".", "_", "?" and "/main/" are tokens of their own.               *)
(***************************************************************************)
EXTENDS Integers, Sequences, FiniteSets, TLC

(***************************************************************************)
(* Bounds of the model                                                     *)
(***************************************************************************)
\* number of calendar years the current date of the range runs ranges over
NumYears == 2
\* how many months before the current month a start date may lie
MaxMonthsBack == 3
\* largest length of a string handed to the file-name functions
MaxNameLen == 3
\* largest number of photo entries the server hands out in one run
MaxPhotos == 2
\* largest length of one page's photos list
MaxPageLen == 1
\* largest small "total" a server reports (125 is added for the scenario)
MaxTotal == 2
\* largest small "per_page" a server reports (50 is added for the scenario)
MaxPerPage == 1
\* cap on the page counter (never binding for the code as written)
MaxPage == 130

(***************************************************************************)
(* Values                                                                  *)
(***************************************************************************)
\* Python None (JSON null) where a string is expected
None == "None"
\* a URL-valued JSON field: a string, null, or a key that is absent
Str(u) == [k |-> "str", v |-> u]
NullUrl == [k |-> "null", v |-> <<>>]
AbsentUrl == [k |-> "absent", v |-> <<>>]
\* a number-valued JSON field that is null, or whose key is absent
NullNum == -1
AbsentNum == -2

Min(a, b) == IF a <= b THEN a ELSE b

(***************************************************************************)
(* datetime arithmetic                                                     *)
(***************************************************************************)
IsLeap(y) == (y % 4 = 0) /\ ((y % 100 # 0) \/ (y % 400 = 0))

\* calendar.monthrange(y, m)[1]
DaysInMonth(y, m) ==
    IF m = 2 THEN (IF IsLeap(y) THEN 29 ELSE 28)
    ELSE IF m \in {4, 6, 9, 11} THEN 30 ELSE 31

\* datetime.__lt__ : lexicographic on the fields
DtLess(a, b) ==
    \/ a[1] < b[1]
    \/ a[1] = b[1] /\ a[2] < b[2]
    \/ a[1] = b[1] /\ a[2] = b[2] /\ a[3] < b[3]
    \/ a[1] = b[1] /\ a[2] = b[2] /\ a[3] = b[3] /\ a[4] < b[4]

DtLeq(a, b) == a = b \/ DtLess(a, b)

\* max(a, b) of two datetimes (the first argument wins a tie)
DtMax(a, b) == IF DtLess(a, b) THEN b ELSE a

\* dt + timedelta(days=1)
AddOneDay(dt) ==
    IF dt[3] < DaysInMonth(dt[1], dt[2]) THEN <<dt[1], dt[2], dt[3] + 1, dt[4]>>
    ELSE IF dt[2] < 12 THEN <<dt[1], dt[2] + 1, 1, dt[4]>>
    ELSE <<dt[1] + 1, 1, 1, dt[4]>>

\* dt.replace(hour=0, minute=0, second=0, microsecond=0)
TruncateToMidnight(dt) == <<dt[1], dt[2], dt[3], 0>>

\* the day not added
EndBoundary_Today(nowdt) == TruncateToMidnight(nowdt)

\* datetime.now() + timedelta(days=1), truncated to midnight
EndBoundary(nowdt) == TruncateToMidnight(AddOneDay(nowdt))

\* dt - relativedelta(months=1): previous month, day clipped to its length
SubOneMonth(dt) ==
    LET y == IF dt[2] = 1 THEN dt[1] - 1 ELSE dt[1]
        m == IF dt[2] = 1 THEN 12 ELSE dt[2] - 1
    IN  <<y, m, Min(dt[3], DaysInMonth(y, m)), dt[4]>>

\* the lower edge not clamped to the start date
WindowFrom_Unclamped(start, cto) == SubOneMonth(cto)

\* current_from = max(start_datetime, current_to - relativedelta(months=1))
WindowFrom(start, cto) == DtMax(start, SubOneMonth(cto))

(***************************************************************************)
(* File names                                                              *)
(***************************************************************************)
HasTok(s, c) == \E i \in 1..Len(s) : s[i] = c

\* index of the last occurrence of c in s, 0 when there is none
LastIndexOf(s, c) ==
    IF HasTok(s, c) THEN CHOOSE i \in 1..Len(s) :
                            s[i] = c /\ \A j \in (i+1)..Len(s) : s[j] # c
    ELSE 0

\* filename.rpartition('_') : <<head, sep, tail>>
RPartition(s, c) ==
    LET k == LastIndexOf(s, c)
    IN  IF k = 0 THEN << <<>>, <<>>, s >>
        ELSE << SubSeq(s, 1, k - 1), <<c>>, SubSeq(s, k + 1, Len(s)) >>

\* the test for a period left out
check_filename_format_NoTest(filename) ==
    LET parts == RPartition(filename, "_")
    IN  parts[1] \o <<".">> \o parts[3]

check_filename_format(filename) ==
    IF ~HasTok(filename, ".")
    THEN LET parts == RPartition(filename, "_")
         IN  parts[1] \o <<".">> \o parts[3]
    ELSE filename

\* re.search(r'/main/([^?]+)', url): the first "/main/" that is followed by
\* a character other than "?", and the longest run of such characters
MatchStarts(url) ==
    {i \in 1..(Len(url) - 1) : url[i] = "/main/" /\ url[i + 1] # "?"}

MatchGroup(url) ==
    LET i == CHOOSE k \in MatchStarts(url) : \A j \in MatchStarts(url) : k <= j
        e == CHOOSE k \in (i + 1)..Len(url) :
                /\ \A j \in (i + 1)..k : url[j] # "?"
                /\ (k = Len(url) \/ url[k + 1] = "?")
    IN  SubSeq(url, i + 1, e)

\* str(hash(url)) under the hash seed of the running process: some fixed
\* function of the string and the seed, without "." or "_"
HashStr(url, seed) ==
    IF seed = 1 THEN (IF Len(url) % 2 = 0 THEN "-71" ELSE "12")
    ELSE (IF Len(url) % 2 = 0 THEN "35" ELSE "-8")

\* lines 42-44: the file name a URL is stored under
FileNameOf(url, seed) ==
    check_filename_format(
        IF MatchStarts(url) # {} THEN MatchGroup(url)
        ELSE <<"photo", "_", HashStr(url, seed), ".", "jpg">>)

(***************************************************************************)
(* The server's photo objects and the descriptors built from them          *)
(***************************************************************************)
UrlDotted   == <<"/main/", "a", ".", "j">>
UrlUnderbar == <<"/main/", "a", "_", "j", "?", "1">>
UrlNoMain   == <<"/x/", "b">>

\* objects of a page's "photos" list; main_url may be missing or null
Entries ==
    { [main_url |-> Str(UrlDotted),   created_at |-> "2024-01-05", caption |-> "c"],
      [main_url |-> Str(UrlUnderbar), created_at |-> None,         caption |-> None],
      [main_url |-> Str(UrlNoMain),   created_at |-> "bad",        caption |-> "c"],
      [main_url |-> NullUrl,          created_at |-> "2024-01-05", caption |-> None],
      [main_url |-> AbsentUrl,        created_at |-> "2024-01-05", caption |-> "c"] }

RECURSIVE SelectSeq2(_, _)
\* [f(x) for x in s if keep(x)] for the comprehension of lines 114-117
SelectSeq2(s, acc) ==
    IF s = <<>> THEN acc
    ELSE SelectSeq2(Tail(s),
            IF Head(s).main_url.k # "absent"
            THEN Append(acc, [main_url     |-> Head(s).main_url,
                              created_date |-> Head(s).created_at,
                              caption      |-> Head(s).caption])
            ELSE acc)

\* lines 114-117: one descriptor per entry that has the key "main_url"
photo_objects(photos) == SelectSeq2(photos, <<>>)

\* all lists over S of length at most n
SeqsUpTo(S, n) == UNION {[1..k -> S] : k \in 0..n}

\* the test with > for >=
LastPage_Strict(p, per_page, total) == p * per_page > total

\* the test with = for >=
LastPage_Exact(p, per_page, total) == p * per_page = total

\* line 122: the test that ends the pagination loop
LastPage(p, per_page, total) == p * per_page >= total

\* data.get(key, default)
GetOr(v, default) == IF v = AbsentNum THEN default ELSE v

(***************************************************************************)
(* State                                                                   *)
(***************************************************************************)
VARIABLES
    pc,              \* where run_download is: "init", "login", "fetching",
                     \* "downloading", "done"
    result,          \* how run_download ended ("running" until it has)
    now,             \* the value datetime.now() returns at line 146
    start_datetime,  \* argument of run_download
    hashSeed,        \* the string hash seed of this process
    srv_per_page,    \* the per_page the server reports (AbsentNum: no key)
    srv_total,       \* the total a server with a constant total reports
    datetime_to,     \* line 146-147
    current_to,      \* line 165, 177
    current_from,    \* line 167
    page,            \* fetch_photos_for_date_range: page
    all_photos,      \* fetch_photos_for_date_range: all_photos
    all_photo_urls,  \* run_download: all_photo_urls
    total_photos,    \* global, line 13
    photos_processed,\* global, line 14
    tasks,           \* the coroutines gathered at line 31
    disk,            \* the files under save_dir
    windows,         \* history: the windows fetched so far, with the pages
                     \* requested for each and how its pagination ended
    loginReqs,       \* history: number of POSTs to the session endpoint
    loginResult,     \* history: how the login call answered ("none" before)
    photoReqs,       \* history: number of GETs per descriptor
    writes,          \* history: number of open(file_path, "wb") per descriptor
    progress,        \* history: the "Progress: p/t" lines printed
    probe            \* a string, the hash seeds of two processes, and what
                     \* check_filename_format and lines 42-45 make of it

vars == <<pc, result, now, start_datetime, hashSeed, srv_per_page, srv_total,
          datetime_to, current_to, current_from, page, all_photos,
          all_photo_urls, total_photos, photos_processed, tasks, disk,
          windows, loginReqs, loginResult, photoReqs, writes, progress, probe>>

inputs == <<now, start_datetime, hashSeed, srv_per_page, srv_total>>
counters == <<total_photos, photos_processed, progress>>
dlstate == <<tasks, disk, photoReqs, writes>>

\* os.path.join(save_dir, filename)
FilePath(filename) == <<"save_dir", "/">> \o filename

\* os.path.exists(file_path)
Exists(d, path) == \E r \in d : r.name = path

\* the directory after file_path has been (re)written with content c
WithFile(d, path, c) ==
    {r \in d : r.name # path} \cup {[name |-> path, content |-> c]}

NoDate == <<0, 0, 0, 0>>

\* no string under test
NoProbe == [name |-> <<>>, seeds |-> <<1, 1>>, norms |-> <<>>, paths |-> <<>>]

\* the state before run_download is called, for given inputs
InitWith(nowdt, start, seed, pp, total, files) ==
    /\ pc = "init" /\ result = "running"
    /\ now = nowdt /\ start_datetime = start
    /\ hashSeed = seed /\ srv_per_page = pp /\ srv_total = total
    /\ datetime_to = NoDate /\ current_to = NoDate /\ current_from = NoDate
    /\ page = 0 /\ all_photos = <<>> /\ all_photo_urls = <<>>
    /\ total_photos = 0 /\ photos_processed = 0
    /\ tasks = <<>>
    /\ disk = {[name |-> f, content |-> "old"] : f \in files}
    /\ windows = <<>> /\ loginReqs = 0 /\ loginResult = "none"
    /\ photoReqs = <<>> /\ writes = <<>>
    /\ progress = <<>>

(***************************************************************************)
(* run_download                                                            *)
(***************************************************************************)
\* lines 146-152: compute the end boundary, open the client, POST the login
Start ==
    /\ pc = "init"
    /\ datetime_to' = EndBoundary(now)
    /\ loginReqs' = loginReqs + 1
    /\ pc' = "login"
    /\ UNCHANGED <<result, inputs, probe, current_to, current_from, page,
                   all_photos, all_photo_urls, counters, dlstate, windows,
                   loginResult>>

\* line 28-30: one coroutine per element of the list
NewTasks(urls) ==
    [i \in 1..Len(urls) |-> [photo |-> urls[i], st |-> "created",
                              outcome |-> "none", resp |-> "none",
                              exif |-> "none"]]

\* line 166: while current_to > start_datetime
LoopContinues(start, cto) == DtLess(start, cto)

\* lines 167-175: the next window, up to its first page request
NextWindow(cto, wins) ==
    LET cfrom == WindowFrom(start_datetime, cto)
    IN  /\ current_from' = cfrom
        /\ windows' = Append(wins, [from |-> cfrom, to |-> cto,
                                    reqs |-> <<1>>, status |-> "open"])
        /\ page' = 1
        /\ all_photos' = <<>>
        /\ pc' = "fetching"
        /\ UNCHANGED <<result, total_photos, tasks, photoReqs, writes>>

\* lines 179-181: nothing to download
NoPhotos(wins) ==
    /\ windows' = wins
    /\ pc' = "done" /\ result' = "no_photos"
    /\ UNCHANGED <<current_from, page, all_photos, total_photos, tasks,
                   photoReqs, writes>>

\* lines 183-187 and 27-31: fix the total and gather the coroutines
BeginDownload(agg, wins) ==
    /\ windows' = wins
    /\ pc' = "downloading"
    /\ total_photos' = Len(agg)
    /\ tasks' = NewTasks(agg)
    /\ photoReqs' = [i \in 1..Len(agg) |-> 0]
    /\ writes' = [i \in 1..Len(agg) |-> 0]
    /\ UNCHANGED <<result, current_from, page, all_photos>>

\* the download started inside the window loop, as soon as a window has
\* yielded a descriptor
RunLoop_DownloadInLoop(cto, agg, wins) ==
    /\ current_to' = cto
    /\ all_photo_urls' = agg
    /\ IF agg # <<>> THEN BeginDownload(agg, wins)
       ELSE IF LoopContinues(start_datetime, cto) THEN NextWindow(cto, wins)
       ELSE NoPhotos(wins)

\* lines 166-187, from the loop test on: either the first page request of
\* the next window, or the end of the fetch phase
RunLoop(cto, agg, wins) ==
    /\ current_to' = cto
    /\ all_photo_urls' = agg
    /\ IF LoopContinues(start_datetime, cto) THEN NextWindow(cto, wins)
       ELSE IF agg = <<>> THEN NoPhotos(wins)
       ELSE BeginDownload(agg, wins)

\* the test for the token left out
LoginSucceeded_NoTokenTest(r) == r \in {"ok", "no_token"}

\* lines 153-158: the response has a success status, a JSON body and a
\* non-empty auth_token
LoginSucceeded(r) == r = "ok"

\* lines 152-165: the login call answers
LoginResponse(r) ==
    /\ pc = "login"
    /\ loginResult' = r
    /\ IF LoginSucceeded(r)
       THEN RunLoop(datetime_to, <<>>, windows)
       ELSE /\ pc' = "done"
            /\ result' = (IF r = "no_token" THEN "no_token" ELSE "login_error")
            /\ UNCHANGED <<current_to, current_from, page, all_photos,
                           all_photo_urls, total_photos, tasks, photoReqs,
                           writes, windows>>
    /\ UNCHANGED <<inputs, probe, datetime_to, photos_processed, progress,
                   disk, loginReqs>>

(***************************************************************************)
(* fetch_photos_for_date_range                                             *)
(***************************************************************************)
\* the history, with how the pagination of the current window ended
Closed(status) == [windows EXCEPT ![Len(windows)].status = status]

\* lines 107-124: page `page` answers with a body
PageOK(photos, total) ==
    /\ pc = "fetching"
    /\ LET acc == all_photos \o photo_objects(photos)
           tot == GetOr(total, 0)
           per_page == GetOr(srv_per_page, 50)
       IN  IF tot = NullNum \/ per_page = NullNum
           THEN \* TypeError at line 122, caught at line 129, after extend
                RunLoop(current_from, all_photo_urls \o acc,
                        Closed("malformed"))
           ELSE IF LastPage(page, per_page, tot)
           THEN RunLoop(current_from, all_photo_urls \o acc,
                        Closed("ok"))
           ELSE /\ page < MaxPage
                /\ page' = page + 1
                /\ all_photos' = acc
                /\ windows' = [windows EXCEPT
                                  ![Len(windows)].reqs = Append(@, page + 1)]
                /\ UNCHANGED <<pc, result, current_to, current_from,
                               all_photo_urls, total_photos, tasks,
                               photoReqs, writes>>
    /\ UNCHANGED <<inputs, probe, datetime_to, photos_processed, progress, disk,
                   loginReqs, loginResult>>

\* the accumulated descriptors thrown away on an exception
fetch_result_dropped(acc) == <<>>

\* lines 126-133: on an exception the loop is left and what has been
\* accumulated is returned
fetch_result_on_error(acc) == acc

\* lines 107-109 raise: HTTP error status, transport error, undecodable body
PageFail ==
    /\ pc = "fetching"
    /\ RunLoop(current_from, all_photo_urls \o fetch_result_on_error(all_photos),
               Closed("failed"))
    /\ UNCHANGED <<inputs, probe, datetime_to, photos_processed, progress,
                   disk, loginReqs, loginResult>>

(***************************************************************************)
(* download_single_photo, one coroutine per descriptor                     *)
(***************************************************************************)
\* lines 42-45 for a descriptor whose main_url is a string
file_path_of(photo) == FilePath(FileNameOf(photo.main_url.v, hashSeed))

\* the existence check left out
ShouldSkip_Never(photo) == FALSE

\* line 48: os.path.exists(file_path)
ShouldSkip(photo) == Exists(disk, file_path_of(photo))

\* a failure that also ends every coroutine that has not finished
Finished_CancelsSiblings(i, outcome) ==
    [j \in 1..Len(tasks) |->
        IF j = i \/ (outcome = "failed" /\ tasks[j].st # "done")
        THEN [tasks[j] EXCEPT !.st = "done",
                              !.outcome = IF j = i THEN outcome ELSE "failed"]
        ELSE tasks[j]]

\* lines 52, 83-87: coroutine i returns; nothing leaves it but its messages
Finished(i, outcome) == [tasks EXCEPT ![i].st = "done", ![i].outcome = outcome]

\* the counter read when coroutine i started and written back after its
\* await: by then only the skips before i had been counted
Incremented_StaleRead(i) ==
    Cardinality({j \in 1..(i - 1) : tasks[j].outcome = "skipped"}) + 1

\* lines 50 and 81: photos_processed += 1, read and written without an
\* await in between
Incremented(i) == photos_processed + 1

\* the status of the response not looked at
ResponseAccepted_NoStatusCheck(resp) == resp \in {"ok", "http_error"}

\* lines 55-56: the GET returned and raise_for_status() did not raise
ResponseAccepted(resp) == resp = "ok"

\* an EXIF failure handled like a failed download
OutcomeAfterExif_Fatal(exif_ok) == IF exif_ok THEN "saved" ELSE "failed"

\* lines 78-83: the inner except swallows an EXIF failure, so the lines that
\* count and report the photo as saved run either way
OutcomeAfterExif(exif_ok) == "saved"

\* lines 36-55: the coroutine runs from its start to its first suspension.
\* The event loop starts the gathered coroutines in list order, each up to
\* its first await, before it polls the network.
HandlerStart(i) ==
    /\ pc = "downloading"
    /\ i \in 1..Len(tasks)
    /\ tasks[i].st = "created"
    /\ \A j \in 1..(i - 1) : tasks[j].st # "created"
    /\ LET photo == tasks[i].photo
       IN  IF photo.main_url.k # "str"
           THEN \* re.search(None) raises TypeError, caught at line 86
                /\ tasks' = Finished(i, "failed")
                /\ UNCHANGED <<photos_processed, progress, photoReqs>>
           ELSE IF ShouldSkip(photo)
           THEN \* lines 48-52
                /\ photos_processed' = Incremented(i)
                /\ progress' = Append(progress,
                                      <<Incremented(i), total_photos>>)
                /\ tasks' = Finished(i, "skipped")
                /\ UNCHANGED photoReqs
           ELSE \* line 55: GET the photo bytes and suspend
                /\ photoReqs' = [photoReqs EXCEPT ![i] = @ + 1]
                /\ tasks' = [tasks EXCEPT ![i].st = "awaiting"]
                /\ UNCHANGED <<photos_processed, progress>>
    /\ UNCHANGED <<pc, result, inputs, probe, datetime_to, current_to,
                   current_from, page, all_photos, all_photo_urls,
                   total_photos, disk, windows, loginReqs, loginResult,
                   writes>>

\* lines 61-79: parse_date raises on an unparseable date; piexif may raise
ExifOutcomes(photo) ==
    IF photo.created_date = "bad" THEN {FALSE} ELSE BOOLEAN

\* lines 55-87: the GET of coroutine i answers.
\*   resp: "ok", "http_error" (raise_for_status), "error" (transport)
\*   wr:   "ok", "open_error" (open raises), "write_error" (write raises
\*         after open has created or truncated the file)
\*   exif_ok: whether lines 61-77 run without raising
HandlerResponse(i, resp, wr, exif_ok) ==
    /\ pc = "downloading"
    /\ i \in 1..Len(tasks)
    /\ tasks[i].st = "awaiting"
    /\ \A j \in 1..Len(tasks) : tasks[j].st # "created"
    /\ LET photo == tasks[i].photo
           path == file_path_of(photo)
           got(t) == [t EXCEPT ![i].resp = resp]
       IN  IF ~ResponseAccepted(resp)
           THEN /\ tasks' = got(Finished(i, "failed"))
                /\ UNCHANGED <<disk, writes, photos_processed, progress>>
           ELSE /\ writes' = [writes EXCEPT ![i] = @ + 1]
                /\ IF wr = "open_error"
                   THEN /\ tasks' = got(Finished(i, "failed"))
                        /\ UNCHANGED <<disk, photos_processed, progress>>
                   ELSE IF wr = "write_error"
                   THEN /\ disk' = WithFile(disk, path, "partial")
                        /\ tasks' = got(Finished(i, "failed"))
                        /\ UNCHANGED <<photos_processed, progress>>
                   ELSE /\ exif_ok \in ExifOutcomes(photo)
                        /\ disk' = WithFile(disk, path,
                                      IF exif_ok THEN "exif" ELSE "raw")
                        /\ photos_processed' = Incremented(i)
                        /\ progress' = Append(progress,
                                 <<Incremented(i), total_photos>>)
                        /\ tasks' = [got(Finished(i, OutcomeAfterExif(exif_ok)))
                                        EXCEPT ![i].exif =
                                          IF exif_ok THEN "ok" ELSE "failed"]
    /\ UNCHANGED <<pc, result, inputs, probe, datetime_to, current_to,
                   current_from, page, all_photos, all_photo_urls,
                   total_photos, windows, loginReqs, loginResult,
                   photoReqs>>

\* gather returning as soon as one coroutine has finished
Join_FirstFinished ==
    /\ pc = "downloading"
    /\ \E j \in 1..Len(tasks) : tasks[j].st = "done"
    /\ pc' = "done"
    /\ result' = "completed"
    /\ UNCHANGED <<inputs, probe, datetime_to, current_to, current_from,
                   page, all_photos, all_photo_urls, counters, dlstate,
                   windows, loginReqs, loginResult>>

\* line 31 and 187: gather returns once every coroutine has finished, and
\* run_download ends
Join ==
    /\ pc = "downloading"
    /\ \A j \in 1..Len(tasks) : tasks[j].st = "done"
    /\ pc' = "done"
    /\ result' = "completed"
    /\ UNCHANGED <<inputs, probe, datetime_to, current_to, current_from,
                   page, all_photos, all_photo_urls, counters, dlstate,
                   windows, loginReqs, loginResult>>

(***************************************************************************)
(* Specifications                                                          *)
(***************************************************************************)
Dt(y, m, d, h) == <<y, m, d, h>>

LoginResults == {"ok", "http_error", "no_token", "error"}
Responses == {"ok", "http_error", "error"}
WriteResults == {"ok", "open_error", "write_error"}

\* the photos lists a server may answer with: at most n objects, and at
\* most budget descriptors in one run
Pages(n, budget) ==
    {ph \in SeqsUpTo(Entries, n) :
        Len(all_photo_urls) + Len(all_photos) + Len(photo_objects(ph)) <= budget}

\* files that may be in save_dir before the run
OldFiles(seed) == {FilePath(FileNameOf(UrlDotted, seed)),
                   FilePath(FileNameOf(UrlNoMain, seed))}

(* ---- the whole pipeline ------------------------------------------------ *)
\* the 15th of March 2024, start dates that give two windows, one window and
\* no window, and a server with one photo a page and at most two pages
Init ==
    \E m \in {2, 3, 4}, seed \in {1, 2} :
      \E files \in SUBSET OldFiles(seed) :
        /\ InitWith(Dt(2024, 3, 15, 13), Dt(2024, m, 1, 0), seed, 1,
                    AbsentNum, files)
        /\ probe = NoProbe

Login == \E r \in LoginResults : LoginResponse(r)

PageAnswer ==
    \E photos \in Pages(1, MaxPhotos), total \in {0, 2} : PageOK(photos, total)

HandlerStep == \E i \in 1..Len(tasks) : HandlerStart(i)

HandlerAnswer ==
    \E i \in 1..Len(tasks), resp \in Responses, wr \in WriteResults,
       exif_ok \in BOOLEAN : HandlerResponse(i, resp, wr, exif_ok)

Next ==
    \/ Start
    \/ Login
    \/ PageAnswer
    \/ PageFail
    \/ HandlerStep
    \/ HandlerAnswer
    \/ Join

Spec == Init /\ [][Next]_vars

\* the event loop runs every coroutine that is ready, every photo request
\* answers or fails (timeout=30.0 at line 55), and gather resumes its caller
InitOneWindow ==
    \E files \in SUBSET OldFiles(1) :
        /\ InitWith(Dt(2024, 3, 15, 13), Dt(2024, 3, 1, 0), 1, 1,
                    AbsentNum, files)
        /\ probe = NoProbe

FairSpec ==
    /\ InitOneWindow
    /\ [][Next]_vars
    /\ WF_vars(HandlerStep) /\ WF_vars(HandlerAnswer) /\ WF_vars(Join)

(* ---- pagination against a server with a constant total ----------------- *)
PerPages == (1..MaxPerPage) \cup {50, AbsentNum}
Totals == (0..MaxTotal) \cup {125, AbsentNum, NullNum}

InitFetch ==
    \E pp \in PerPages, total \in Totals :
        /\ InitWith(Dt(2024, 3, 15, 13), Dt(2024, 3, 1, 0), 1, pp, total, {})
        /\ probe = NoProbe

LoginOK == LoginResponse("ok")

PageConst == \E photos \in Pages(MaxPageLen, MaxPhotos) : PageOK(photos, srv_total)

NextFetch ==
    \/ Start
    \/ LoginOK
    \/ PageConst
    \/ PageFail

SpecFetch == InitFetch /\ [][NextFetch]_vars

\* every request is answered or fails (timeout=30.0 at line 107)
FairSpecFetch == SpecFetch /\ WF_vars(PageConst \/ PageFail) /\ WF_vars(Start)
                    /\ WF_vars(LoginOK)

(* ---- the month-stepping loop over many dates --------------------------- *)
Years == 2024..(2024 + NumYears - 1)

RangeNows ==
    {dt \in {Dt(y, m, d, h) : y \in Years, m \in 1..12, d \in 1..31, h \in {0, 13}} :
        dt[3] <= DaysInMonth(dt[1], dt[2])}

\* start dates (midnight, as strptime("%Y-%m-%d") gives) from the month
\* after nowdt back to MaxMonthsBack months before it
RangeStarts(nowdt) ==
    UNION { LET ym == nowdt[1] * 12 + (nowdt[2] - 1) - k
                y == ym \div 12
                m == (ym % 12) + 1
            IN  {Dt(y, m, d, 0) : d \in {1, 16, DaysInMonth(y, m)}}
          : k \in (0 - 1)..MaxMonthsBack }

InitRange ==
    \E nowdt \in RangeNows : \E start \in RangeStarts(nowdt) :
        /\ InitWith(nowdt, start, 1, AbsentNum, 0, {})
        /\ probe = NoProbe

PageEmpty == PageOK(<<>>, srv_total)

NextRange ==
    \/ Start
    \/ LoginOK
    \/ PageEmpty

SpecRange == InitRange /\ [][NextRange]_vars

(* ---- the file-name functions on many strings --------------------------- *)
NameToks == {"a", "_", ".", "?", "/main/"}

InitProbe ==
    \E f \in SeqsUpTo(NameToks, MaxNameLen), s1 \in {1, 2}, s2 \in {1, 2} :
        /\ InitWith(Dt(2024, 3, 15, 13), Dt(2024, 3, 1, 0), s1, 1, 0, {})
        /\ probe = [name |-> f, seeds |-> <<s1, s2>>, norms |-> <<>>,
                    paths |-> <<>>]

\* check_filename_format applied to the string, then to its own result
Normalize ==
    /\ Len(probe.norms) < 2
    /\ probe' = [probe EXCEPT !.norms =
                    Append(@, check_filename_format(
                                 IF @ = <<>> THEN probe.name ELSE @[Len(@)]))]
    /\ UNCHANGED <<pc, result, inputs, datetime_to, current_to, current_from,
                   page, all_photos, all_photo_urls, counters, dlstate,
                   windows, loginReqs, loginResult>>

\* lines 42-45 run on the string as a URL, by the first process and then by
\* the second
ComputePath ==
    /\ Len(probe.paths) < 2
    /\ probe' = [probe EXCEPT !.paths =
                    Append(@, FilePath(FileNameOf(probe.name,
                                                  probe.seeds[Len(@) + 1])))]
    /\ UNCHANGED <<pc, result, inputs, datetime_to, current_to, current_from,
                   page, all_photos, all_photo_urls, counters, dlstate,
                   windows, loginReqs, loginResult>>

NextProbe ==
    \/ Normalize
    \/ ComputePath

SpecProbe == InitProbe /\ [][NextProbe]_vars

(***************************************************************************)
(* Properties                                                              *)
(***************************************************************************)
Done(i) == tasks[i].st = "done"
Counted == {i \in 1..Len(tasks) : tasks[i].outcome \in {"skipped", "saved"}}

\* C1: after a run that went through the download phase, photos_processed
\* equals the length of the aggregated descriptor list, whatever the
\* outcomes of the descriptors were (success, skip or failure).
C1_ProcessedEqualsListLength ==
    (pc = "done" /\ result = "completed")
        => photos_processed = Len(all_photo_urls)

\* C2: in the download phase photos_processed <= total_photos, it never
\* decreases, total_photos is the length of the aggregated list from before
\* the first handler starts and no handler changes it, and photos_processed
\* reaches total_photos exactly once, at completion.
C2_CountersContract ==
    /\ [](pc = "downloading" => /\ photos_processed <= total_photos
                                /\ total_photos = Len(all_photo_urls))
    /\ [][photos_processed' >= photos_processed]_vars
    /\ [][tasks # <<>> => total_photos' = total_photos]_vars
    /\ []((pc = "downloading" /\ \E i \in 1..Len(tasks) : ~Done(i))
            => photos_processed < total_photos)
    /\ []((pc = "done" /\ result = "completed")
            => photos_processed = total_photos)

\* C3: a handler that finds its file path already in the directory issues
\* no request for its descriptor, leaves the directory as it is, and adds
\* exactly one to photos_processed; a skipped descriptor has no request and
\* no write at any later time, and the counter counts it once.
C3_SkipStep(i) ==
    (/\ pc = "downloading"
     /\ tasks[i].st = "created"
     /\ tasks'[i].st # "created"
     /\ tasks[i].photo.main_url.k = "str"
     /\ Exists(disk, FilePath(FileNameOf(tasks[i].photo.main_url.v, hashSeed))))
    => /\ tasks'[i].st = "done"
       /\ tasks'[i].outcome = "skipped"
       /\ photoReqs' = photoReqs
       /\ writes' = writes
       /\ disk' = disk
       /\ photos_processed' = photos_processed + 1

C3_SkipOnExists ==
    /\ [][\A i \in 1..Len(tasks) : C3_SkipStep(i)]_vars
    /\ [](\A i \in 1..Len(tasks) :
            tasks[i].outcome = "skipped" => photoReqs[i] = 0 /\ writes[i] = 0)
    /\ [](photos_processed = Cardinality(Counted))

C3_Witness ==
    /\ pc = "done" /\ result = "completed"
    /\ \E i, j \in 1..Len(tasks) :
          /\ tasks[i].outcome = "skipped"
          /\ tasks[j].outcome = "saved"

\* ceil(total / per_page), at least 1
PagesNeeded(total, per_page) ==
    LET n == (total + per_page - 1) \div per_page
    IN  IF n < 1 THEN 1 ELSE n

UpTo(n) == [i \in 1..n |-> i]

\* the server reports a total >= 0 and a per_page >= 1
ServerWellBehaved == srv_total >= 0 /\ srv_per_page >= 1

\* C4: against a server that answers every page of a window without error
\* with a constant total >= 0 and per_page >= 1, the pages requested are
\* 1, 2, ..., N in that order, N = max(1, ceil(total / per_page)), and none
\* after N; total = 125 and per_page = 50 gives exactly three requests.
C4_PagesRequested ==
    \A w \in 1..Len(windows) :
        ServerWellBehaved =>
            LET n == PagesNeeded(srv_total, srv_per_page)
                reqs == windows[w].reqs
            IN  /\ windows[w].status = "ok" => reqs = UpTo(n)
                /\ windows[w].status = "open" =>
                        Len(reqs) <= n /\ reqs = UpTo(Len(reqs))
                /\ (windows[w].status = "ok" /\ srv_total = 125
                        /\ srv_per_page = 50) => reqs = <<1, 2, 3>>

C4_Witness ==
    /\ srv_total = 125 /\ srv_per_page = 50
    /\ Len(windows) = 1
    /\ windows[1].status = "ok"
    /\ windows[1].reqs = <<1, 2, 3>>
    /\ pc # "fetching"

\* C5: against a server with a fixed positive per_page and a finite total
\* the pagination loop ends, whatever mix of successful and failing
\* responses it gets; with total = 0 it ends after the request for page 1.
C5_PaginationTerminates ==
    /\ (pc = "fetching" /\ ServerWellBehaved) ~> (pc # "fetching")
    /\ []((ServerWellBehaved /\ srv_total = 0) =>
            \A w \in 1..Len(windows) : windows[w].reqs = <<1>>)

C5_Witness ==
    /\ ServerWellBehaved
    /\ pc # "fetching"
    /\ Len(windows) = 1
    /\ windows[1].status = "failed"
    /\ Len(windows[1].reqs) >= 3

\* the fetch phase is over: the login succeeded and the window loop was left
FetchPhaseOver == loginResult = "ok" /\ pc \in {"downloading", "done"}

\* every window down to the start date has been fetched
AllWindowsFetched ==
    /\ \A w \in 1..Len(windows) :
          windows[w].status # "open" /\ Len(windows[w].reqs) >= 1
    /\ IF DtLess(start_datetime, EndBoundary(now))
       THEN /\ windows # <<>>
            /\ windows[1].to = EndBoundary(now)
            /\ windows[Len(windows)].from = start_datetime
            /\ \A w \in 2..Len(windows) : windows[w].to = windows[w - 1].from
       ELSE windows = <<>>

SomeWindowFailed == \E w \in 1..Len(windows) : windows[w].status = "failed"

\* the step in which the request for the current page fails
PageFailStep ==
    /\ pc = "fetching"
    /\ windows[Len(windows)].status = "open"
    /\ windows'[Len(windows)].status = "failed"

\* what a failing page request leaves behind: no further page of the window
\* is requested, the descriptors of the pages before it are kept, and the
\* next thing requested is page 1 of the next window, if there is one
C6_FailureStep ==
    PageFailStep =>
        /\ windows'[Len(windows)].reqs = windows[Len(windows)].reqs
        /\ all_photo_urls' = all_photo_urls \o all_photos
        /\ \/ pc' # "fetching" /\ Len(windows') = Len(windows)
           \/ /\ pc' = "fetching"
              /\ Len(windows') = Len(windows) + 1
              /\ windows'[Len(windows')].reqs = <<1>>
              /\ windows'[Len(windows')].to = windows[Len(windows)].from

\* C6 as stated: a failing page request ends only its window's pagination
\* and keeps the descriptors of the earlier pages; every remaining window is
\* still fetched and the run still enters the download phase with the
\* aggregated list.
C6_FailureKeepsRunGoing ==
    /\ [][C6_FailureStep]_vars
    /\ []((FetchPhaseOver /\ SomeWindowFailed) =>
            /\ AllWindowsFetched
            /\ Len(tasks) = Len(all_photo_urls)
            /\ \A i \in 1..Len(tasks) : tasks[i].photo = all_photo_urls[i]
            /\ total_photos = Len(all_photo_urls)
            /\ (pc = "done" => result = "completed"))

\* C6 amended: as above, and the download phase is entered when the
\* aggregated list is not empty; with an empty list the run ends with
\* "No photo URLs found" and starts no download.
C6_FailureKeepsRunGoingNonEmpty ==
    /\ [][C6_FailureStep]_vars
    /\ []((FetchPhaseOver /\ SomeWindowFailed) =>
            /\ AllWindowsFetched
            /\ IF all_photo_urls # <<>>
               THEN /\ Len(tasks) = Len(all_photo_urls)
                    /\ \A i \in 1..Len(tasks) :
                          tasks[i].photo = all_photo_urls[i]
                    /\ total_photos = Len(all_photo_urls)
                    /\ (pc = "done" => result = "completed")
               ELSE /\ pc = "done" /\ result = "no_photos"
                    /\ tasks = <<>> /\ total_photos = 0)

C6_Witness ==
    /\ pc = "downloading"
    /\ Len(windows) = 2
    /\ windows[1].status = "failed"
    /\ Len(windows[1].reqs) = 2
    /\ windows[2].status = "ok"
    /\ Len(all_photo_urls) = 2
    /\ \E i \in 1..Len(tasks) : tasks[i].st = "awaiting"

\* the window loop has been left
LoopLeft == loginResult = "ok" /\ pc \in {"downloading", "done"}

\* from and to lie in the same month, or in adjacent months with from no
\* earlier in its month than to is in the next (or on its last day)
WithinOneMonth(from, to) ==
    LET k == (to[1] * 12 + to[2]) - (from[1] * 12 + from[2])
    IN  \/ k = 0
        \/ /\ k = 1
           /\ (from[3] >= to[3] \/ from[3] = DaysInMonth(from[1], from[2]))

\* now + 1 day at midnight, computed on the calendar
NextMidnight ==
    IF now[3] < DaysInMonth(now[1], now[2]) THEN <<now[1], now[2], now[3] + 1, 0>>
    ELSE IF now[2] < 12 THEN <<now[1], now[2] + 1, 1, 0>>
    ELSE <<now[1] + 1, 1, 1, 0>>

\* C7: for start < end, the windows are produced newest first, contiguous
\* and non-overlapping, with from <= to, none longer than one calendar
\* month; the first ends at end = now + 1 day at midnight, and once the loop
\* is left the last begins at start, so that their union is [start, end].
C7_WindowsPartitionRange ==
    DtLess(start_datetime, NextMidnight) =>
        /\ \A w \in 1..Len(windows) :
              /\ DtLeq(windows[w].from, windows[w].to)
              /\ DtLeq(start_datetime, windows[w].from)
              /\ DtLeq(windows[w].to, NextMidnight)
              /\ WithinOneMonth(windows[w].from, windows[w].to)
        /\ \A w \in 2..Len(windows) : windows[w].to = windows[w - 1].from
        /\ \A v, w \in 1..Len(windows) :
              v < w => DtLeq(windows[w].to, windows[v].from)
        /\ windows # <<>> => windows[1].to = NextMidnight
        /\ LoopLeft => /\ windows # <<>>
                       /\ windows[Len(windows)].from = start_datetime

C7_Witness ==
    /\ LoopLeft
    /\ Len(windows) >= 3
    /\ windows[1].to[3] = 31
    /\ windows[1].from[3] = 29
    /\ windows[Len(windows)].from = start_datetime
    /\ windows[Len(windows)].from[3] = 16

\* the edges of the windows, in the order they were produced
WindowEdges == [w \in 1..Len(windows) |-> <<windows[w].from, windows[w].to>>]

Scenario ==
    /\ now[1] = 2024 /\ now[2] = 3 /\ now[3] = 15
    /\ start_datetime = Dt(2024, 1, 1, 0)
    /\ LoopLeft

\* C8 as stated: start 2024-01-01 and current date 2024-03-15 give the
\* windows [2024-02-15..2024-03-16], [2024-01-15..2024-02-15],
\* [2024-01-01..2024-01-15], in that order.
C8_ScenarioWindows ==
    Scenario =>
        WindowEdges = << <<Dt(2024, 2, 15, 0), Dt(2024, 3, 16, 0)>>,
                         <<Dt(2024, 1, 15, 0), Dt(2024, 2, 15, 0)>>,
                         <<Dt(2024, 1, 1, 0),  Dt(2024, 1, 15, 0)>> >>

\* C8 amended: the windows are [2024-02-16..2024-03-16],
\* [2024-01-16..2024-02-16], [2024-01-01..2024-01-16], in that order: the
\* month is stepped back from the end boundary, the 16th.
C8_ScenarioWindowsFrom16th ==
    Scenario =>
        WindowEdges = << <<Dt(2024, 2, 16, 0), Dt(2024, 3, 16, 0)>>,
                         <<Dt(2024, 1, 16, 0), Dt(2024, 2, 16, 0)>>,
                         <<Dt(2024, 1, 1, 0),  Dt(2024, 1, 16, 0)>> >>

C8_Witness == Scenario /\ Len(windows) = 3 /\ now[4] = 13

C10_PhasesSequential ==
    /\ []((tasks # <<>> \/ \E i \in 1..Len(photoReqs) : photoReqs[i] > 0)
            => pc \in {"downloading", "done"} /\ AllWindowsFetched)
    /\ [](pc \in {"init", "login", "fetching"} => tasks = <<>>)
    /\ [](\A w \in 1..(Len(windows) - 1) : windows[w].status # "open")
    /\ [](pc = "fetching" <=>
            (windows # <<>> /\ windows[Len(windows)].status = "open"))
    /\ [][tasks # <<>> => windows' = windows]_vars

C10_Witness ==
    /\ pc = "downloading"
    /\ Len(windows) = 2
    /\ Len(windows[1].reqs) = 2
    /\ Len(tasks) = 2
    /\ tasks[1].st = "done" /\ tasks[2].st = "awaiting"

Terminal(i) ==
    tasks[i].st = "done" /\ tasks[i].outcome \in {"saved", "skipped", "failed"}

RunCompleted == pc = "done" /\ result = "completed"

\* C11: download_photos starts one handler per element of the list, each
\* descriptor is attempted once, and the caller is resumed only after every
\* handler has reached a terminal state; under fair scheduling and a network
\* that answers or fails every request, it is resumed eventually.
C11_JoinBarrier ==
    /\ []((pc = "downloading" \/ RunCompleted) =>
            /\ Len(tasks) = Len(all_photo_urls)
            /\ \A i \in 1..Len(tasks) :
                  /\ tasks[i].photo = all_photo_urls[i]
                  /\ photoReqs[i] <= 1
                  /\ writes[i] <= photoReqs[i])
    /\ [](RunCompleted => \A i \in 1..Len(tasks) : Terminal(i))
    /\ [][\A i \in 1..Len(tasks) :
            /\ tasks[i].st # "created" => tasks'[i].st # "created"
            /\ tasks[i].st = "done" => tasks'[i] = tasks[i]]_vars
    /\ (pc = "downloading") ~> RunCompleted

C11_Witness ==
    /\ RunCompleted
    /\ Len(tasks) = 2
    /\ tasks[1].outcome = "failed" /\ photoReqs[1] = 1
    /\ tasks[2].outcome = "saved"

\* the step in which handler i ends in a failure
FailureStep(i) == tasks[i].st # "done" /\ tasks'[i].outcome = "failed"

SomeTaskFailed == \E i \in 1..Len(tasks) : tasks[i].outcome = "failed"

\* C12: a failure of one handler stays inside it: the step in which it
\* fails changes no sibling and does not end run_download, the run is
\* never aborted after it, and every sibling still reaches its own terminal
\* state.
C12_FailureIsolated ==
    /\ [][\A i \in 1..Len(tasks) :
            FailureStep(i) =>
                /\ \A j \in 1..Len(tasks) : j # i => tasks'[j] = tasks[j]
                /\ pc' = pc /\ result' = result]_vars
    /\ [](SomeTaskFailed =>
            /\ pc \in {"downloading", "done"}
            /\ result \in {"running", "completed"})
    /\ SomeTaskFailed ~>
            (RunCompleted /\ \A j \in 1..Len(tasks) : Terminal(j))

C12_Witness ==
    /\ RunCompleted
    /\ Len(tasks) = 2
    /\ tasks[1].outcome = "failed" /\ tasks[1].resp = "none"
    /\ tasks[2].outcome = "saved"

\* the step in which the EXIF update of handler i fails
ExifFailureStep(i) == tasks[i].exif = "none" /\ tasks'[i].exif = "failed"

\* C13: when the EXIF update fails after the bytes were written, the file
\* stays in the directory under its normalized name, the descriptor is
\* counted once, and the handler ends as saved, not as a failed download.
C13_ExifFailureNotFatal ==
    /\ [][\A i \in 1..Len(tasks) :
            ExifFailureStep(i) =>
                /\ [name |-> file_path_of(tasks[i].photo), content |-> "raw"]
                        \in disk'
                /\ photos_processed' = photos_processed + 1
                /\ progress' = Append(progress,
                                      <<photos_processed + 1, total_photos>>)
                /\ tasks'[i].st = "done"
                /\ tasks'[i].outcome = "saved"]_vars
    /\ [](\A i \in 1..Len(tasks) :
            tasks[i].exif = "failed" =>
                /\ tasks[i].outcome = "saved"
                /\ Exists(disk, file_path_of(tasks[i].photo)))

C13_Witness ==
    /\ RunCompleted
    /\ \E i \in 1..Len(tasks) :
          /\ tasks[i].exif = "failed"
          /\ [name |-> file_path_of(tasks[i].photo), content |-> "raw"]
                \in disk

\* C14: one progress line per descriptor that has reached a terminal state,
\* the k-th line reading k/total, so that the lines of a completed run are
\* 1/total, ..., total/total.
C14_ProgressLines ==
    /\ Len(progress) =
          Cardinality({i \in 1..Len(tasks) : tasks[i].st = "done"})
    /\ \A k \in 1..Len(progress) : progress[k] = <<k, total_photos>>
    /\ RunCompleted =>
          /\ Len(progress) = total_photos
          /\ progress[Len(progress)] = <<total_photos, total_photos>>

CountTok(f, c) == Cardinality({i \in 1..Len(f) : f[i] = c})

\* C15: check_filename_format applied to its own result changes nothing; a
\* name with a period is returned as it is; a name without a period (without
\* an underscore and empty ones too) comes back with exactly one period.
C15_NormalizerIdempotent ==
    /\ Len(probe.norms) >= 1 =>
          IF CountTok(probe.name, ".") > 0
          THEN probe.norms[1] = probe.name
          ELSE CountTok(probe.norms[1], ".") = 1
    /\ Len(probe.norms) >= 2 => probe.norms[2] = probe.norms[1]

C15_Witness ==
    /\ probe.name = <<"a", "_", "a">>
    /\ probe.norms = << <<"a", ".", "a">>, <<"a", ".", "a">> >>

\* C16: two processes given the same remote_url compute the same local
\* path, also for a URL without a "/main/" segment.
C16_PathDeterministic ==
    Len(probe.paths) = 2 => probe.paths[1] = probe.paths[2]

Descriptors == all_photo_urls \o all_photos

\* C17: every descriptor kept by fetch_photos_for_date_range has a usable
\* main_url: objects without the key or with a null main_url are dropped,
\* are not in the aggregated list and are not counted in total_photos.
C17_OnlyUsableUrlsKept ==
    /\ \A i \in 1..Len(Descriptors) : Descriptors[i].main_url.k = "str"
    /\ \A i \in 1..Len(tasks) : tasks[i].photo.main_url.k = "str"
    /\ pc = "downloading" =>
          total_photos = Cardinality({i \in 1..Len(all_photo_urls) :
                              all_photo_urls[i].main_url.k = "str"})

\* C18: no increment of photos_processed is lost: in every state the
\* counter is the number of handlers that have ended with a skip or a
\* success, and each such ending adds exactly one.
C18_NoLostIncrement ==
    /\ [](photos_processed
            = Cardinality({i \in 1..Len(tasks) :
                              tasks[i].st = "done"
                              /\ tasks[i].outcome \in {"skipped", "saved"}}))
    /\ [][\A i \in 1..Len(tasks) :
            (tasks[i].st # "done" /\ tasks'[i].outcome \in {"skipped", "saved"})
                => photos_processed' = photos_processed + 1]_vars

C18_Witness ==
    /\ Len(tasks) = 2
    /\ tasks[1].outcome = "saved" /\ tasks[2].outcome = "saved"
    /\ photos_processed = 2

\* the step in which the photo request of handler i fails
RequestFailureStep(i) ==
    tasks[i].st = "awaiting" /\ tasks'[i].resp \in {"http_error", "error"}

\* C19: a failing photo request (status or transport) creates no file and
\* leaves the directory as it was; a file is new under a name only after a
\* successful response for a descriptor of that name.
C19_FailedRequestLeavesNoFile ==
    /\ [][\A i \in 1..Len(tasks) :
            RequestFailureStep(i) =>
                /\ disk' = disk
                /\ writes' = writes
                /\ tasks'[i].outcome = "failed"]_vars
    /\ [](\A r \in disk :
            r.content # "old" =>
                \E i \in 1..Len(tasks) :
                    /\ tasks[i].resp = "ok"
                    /\ tasks[i].photo.main_url.k = "str"
                    /\ file_path_of(tasks[i].photo) = r.name)

C19_Witness ==
    /\ RunCompleted
    /\ \E i \in 1..Len(tasks) :
          /\ tasks[i].resp = "http_error"
          /\ tasks[i].outcome = "failed"
          /\ ~Exists(disk, file_path_of(tasks[i].photo))

SamePath(i, j) ==
    /\ tasks[i].photo.main_url.k = "str"
    /\ tasks[j].photo.main_url.k = "str"
    /\ file_path_of(tasks[i].photo) = file_path_of(tasks[j].photo)

\* C20: in one run at most one photo request and at most one write is made
\* per normalized file path: of two descriptors with the same file name one
\* downloads and the other is skipped.
C20_OneDownloadPerPath ==
    \A i, j \in 1..Len(tasks) :
        (i < j /\ SamePath(i, j)) =>
            /\ photoReqs[i] + photoReqs[j] <= 1
            /\ writes[i] + writes[j] <= 1
            /\ (Terminal(i) /\ Terminal(j)) =>
                  "skipped" \in {tasks[i].outcome, tasks[j].outcome}

====
